---- MODULE Spec2Model ----
(***************************************************************************)
(* Dice resolution and polling delivery of sparc-rpg:                      *)
(*   services/sparc/dice_engine.py            DiceEngine, PerformanceTracker,*)
(*                                             SecureRandomGenerator       *)
(*   services/sparc/dice_broadcaster.py       RollQueue, ETagManager,      *)
(*                                             DiceBroadcaster             *)
(*   services/sparc/dice_history_service.py   DiceHistoryService           *)
(*   services/sparc/optimized_dice_service.py OptimizedDiceEngine          *)
(*   api_routes/sparc_dice_api.py             POST /roll, GET /recent      *)
(*                                                                         *)
(* Conventions.  An Optional[x] value is <<>> (None) or <<x>>.  A Python   *)
(* dict is a function whose DOMAIN is the set of keys present.  The wall   *)
(* clock time.time() is the integer `now` (seconds); several calls can read*)
(* the same value.  A roll id (secrets.token_hex(8)) is a fresh value,     *)
(* written <<session, serial>>.  hashlib.md5 over the JSON dump is taken   *)
(* as collision free: an ETag is the record of the data that was hashed.   *)
(* The asyncio event loop is the FIFO sequence `tasks` of ready tasks.     *)
(***************************************************************************)
EXTENDS Integers, Sequences, FiniteSets, TLC

VARIABLES
    \* ---- DiceEngine ----
    pool_len,           \* len(rng._random_pool)
    roll_history,       \* DiceEngine._roll_history: session -> deque(maxlen=100)
    session_stats,      \* DiceEngine._session_stats
    response_times,     \* PerformanceTracker._response_times deque(maxlen=1000)
    total_rolls,        \* PerformanceTracker._total_rolls
    sub_100ms_count,    \* PerformanceTracker._sub_100ms_count
    issued,             \* roll ids handed out so far, per session
    \* ---- DiceBroadcaster ----
    queue,              \* RollQueue._queue deque(maxlen=1000)
    session_queues,     \* RollQueue._session_queues: session -> deque(maxlen=100)
    etags,              \* ETagManager._etags
    last_modified,      \* ETagManager._last_modified
    active_sessions,    \* DiceBroadcaster._active_sessions
    session_subscribers,\* DiceBroadcaster._session_subscribers
    last_cleanup,       \* DiceBroadcaster._last_cleanup
    \* ---- OptimizedDiceEngine ----
    opt_pool_len,       \* len(OptimizedDiceEngine._random_pool)
    opt_total_rolls,    \* OptimizedDiceEngine.metrics.total_rolls
    opt_batch_ops,      \* OptimizedDiceEngine.metrics.batch_ops
    opt_ret,            \* what the last OptimizedDiceEngine call returned
    \* ---- DiceRollingEngine (dice_service.py) ----
    svc_roll_times,     \* DiceRollingEngine._roll_times, the list of the class
    svc_roll_count,     \* _roll_count of each instance that has assigned it
    svc_ret,            \* what the last DiceRollingEngine call returned/raised
    \* ---- a client polling get_session_updates ----
    client_since,       \* the `since` of its next poll
    client_received,    \* the roll ids delivered to it, in order
    \* ---- environment ----
    now,                \* time.time()
    dbUp,               \* whether db_service.execute_query succeeds right now
    tasks,              \* asyncio ready queue (create_task order)
    stored,             \* ids of the rolls written to the dice_rolls table
    \* ---- observations of the last call ----
    ret,                \* what the last DiceEngine.roll_dice call returned/raised
    http,               \* the last HTTP response
    appended            \* sessions with a roll appended since their last poll

engineVars == <<pool_len, roll_history, session_stats, response_times,
                total_rolls, sub_100ms_count, issued>>
bcastVars  == <<queue, session_queues, etags, last_modified, active_sessions,
                session_subscribers, last_cleanup>>
optVars    == <<opt_pool_len, opt_total_rolls, opt_batch_ops, opt_ret>>
svcVars    == <<svc_roll_times, svc_roll_count, svc_ret>>
clientVars == <<client_since, client_received>>
envVars    == <<now, dbUp, tasks, stored>>
obsVars    == <<ret, http, appended>>
vars       == <<engineVars, bcastVars, optVars, svcVars, clientVars, envVars,
                obsVars>>

----------------------------------------------------------------------------
(* Program constants *)
PoolSize         == 10000
LowWater         == 100
HistoryMaxLen    == 100
PerfMaxHistory   == 1000
QueueMaxSize     == 1000
SessionQueueMaxLen == 100
MaxDiceCount     == 20
DiceSidesAllowed == {4, 6, 8, 10, 12, 20}
CleanupInterval  == 300
InactiveAfter    == 1800
BroadcastMaxAge  == 3600
DefaultSinceWindow == 30
LargeRaw         == 2147483647
OptPoolSize      == 1000
OptMaxDiceCount  == 10

(* Bounds of the model *)
MaxRaw      == 2
MaxCalls    == 1
StartTime   == 10000

Sessions == {"A", "B"}
None     == <<>>
Some(x)  == <<x>>

----------------------------------------------------------------------------
(* Python containers *)
Min(a, b) == IF a < b THEN a ELSE b
Max(a, b) == IF a > b THEN a ELSE b

RECURSIVE SumSeq(_)
SumSeq(q) == IF q = <<>> THEN 0 ELSE Head(q) + SumSeq(Tail(q))

EmptyDict == [k \in {} |-> 0]
Put(d, k, v) == [x \in (DOMAIN d) \cup {k} |-> IF x = k THEN v ELSE d[x]]
Del(d, k) == [x \in (DOMAIN d) \ {k} |-> d[x]]
Get(d, k, default) == IF k \in DOMAIN d THEN d[k] ELSE default

\* a bounded deque that refuses the new element when full
DequeAppendDropNewest(q, x, cap) ==
    IF Len(q) >= cap THEN q ELSE Append(q, x)

\* deque(maxlen=cap).append(x)
DequeAppend(q, x, cap) ==
    IF Len(q) >= cap THEN Append(Tail(q), x) ELSE Append(q, x)

Repeat(x, n) == [i \in 1..n |-> x]

\* Python sorted() of a list of numbers: position k holds the smallest value
\* that has at least k elements at or below it
Sorted(q) ==
    LET values == {q[i] : i \in 1..Len(q)}
        at_or_below == [v \in values |->
                           Cardinality({i \in 1..Len(q) : q[i] <= v})]
    IN [k \in 1..Len(q) |->
           CHOOSE v \in values :
               /\ at_or_below[v] >= k
               /\ \A w \in values : at_or_below[w] >= k => v <= w]

\* Python list slice lst[start:] for any integer start
SliceFrom(lst, start) ==
    LET n == Len(lst)
        first == IF start < 0 THEN Max(n + start, 0) ELSE Min(start, n)
    IN SubSeq(lst, first + 1, n)

----------------------------------------------------------------------------
(* SecureRandomGenerator *)

\* the values secrets.token_bytes(4) can give that the model draws
RawValues == (0..MaxRaw) \cup {LargeRaw}

\* the raw pool entries a call with `cnt` draws may pop
RawSeqs(cnt) ==
    IF cnt <= 0 THEN {<<>>}
    ELSE IF cnt = 1 THEN [1..1 -> RawValues]
    ELSE {[i \in 1..cnt |-> r + i] : r \in 0..MaxRaw}

\* a die that forgets the lower end of the range
get_secure_random_zero_based(raw, min_val, max_val) ==
    raw % (max_val - min_val + 1)

get_secure_random(raw, min_val, max_val) ==
    min_val + (raw % (max_val - min_val + 1))

\* number of _async_refill_pool tasks created by `cnt` attempted draws from a
\* pool of depth L (one per draw that finds fewer than 100 entries)
RefillsScheduled(L, cnt) ==
    Cardinality({i \in 0..(Min(cnt, L + 1) - 1) : L - i < LowWater})

RefillTask == [kind |-> "refill", roll |-> None]

----------------------------------------------------------------------------
(* DiceEngine.roll_dice *)

ValidRoll(dice_count, dice_sides) ==
    /\ ~(dice_count <= 0 \/ dice_count > MaxDiceCount)
    /\ dice_sides \in DiceSidesAllowed

RollSuccess(total_result, difficulty) ==
    IF difficulty # None THEN Some(total_result >= difficulty[1]) ELSE None

MakeRoll(session_id, dice_count, dice_sides, modifier, difficulty, raws, lat) ==
    LET individual_rolls == [i \in 1..dice_count |->
                                get_secure_random(raws[i], 1, dice_sides)]
        total_result == SumSeq(individual_rolls) + modifier
    IN [id |-> <<session_id, issued[session_id] + 1>>,
        session_id |-> session_id,
        dice_count |-> dice_count,
        dice_sides |-> dice_sides,
        modifier |-> modifier,
        result |-> total_result,
        individual_rolls |-> individual_rolls,
        difficulty |-> difficulty,
        success |-> RollSuccess(total_result, difficulty),
        timestamp |-> now,
        response_time_ms |-> lat]

NewStats == [total_rolls |-> 0, total_result |-> 0, success_count |-> 0]

UpdateSessionStats(stats, session_id, roll) ==
    LET cur == Get(stats, session_id, NewStats)
    IN Put(stats, session_id,
           [total_rolls |-> cur.total_rolls + 1,
            total_result |-> cur.total_result + roll.result,
            success_count |-> cur.success_count +
                              (IF roll.success = Some(TRUE) THEN 1 ELSE 0)])

\* the outcome of one call, as the caller sees it
EngineOutcome(session_id, dice_count, dice_sides, modifier, difficulty, raws, lat) ==
    LET args == [session_id |-> session_id, dice_count |-> dice_count,
                 dice_sides |-> dice_sides, modifier |-> modifier,
                 difficulty |-> difficulty]
    IN IF ~ValidRoll(dice_count, dice_sides)
           THEN [kind |-> "ValueError", roll |-> None, args |-> args]
       ELSE IF pool_len < dice_count
           THEN [kind |-> "IndexError", roll |-> None, args |-> args]
       ELSE [kind |-> "ok",
             roll |-> Some(MakeRoll(session_id, dice_count, dice_sides, modifier,
                                    difficulty, raws, lat)),
             args |-> args]

\* a call that draws first and validates afterwards
DrawsOfCallLate(dice_count, dice_sides) ==
    Min(Max(dice_count, 0), pool_len)

\* how many pool entries the call pops: validation comes before the draw loop
DrawsOfCall(dice_count, dice_sides) ==
    IF ~ValidRoll(dice_count, dice_sides) THEN 0 ELSE Min(dice_count, pool_len)

\* the refill tasks the call leaves on the event loop
EngineTasks(dice_count, dice_sides) ==
    IF ~ValidRoll(dice_count, dice_sides) THEN <<>>
    ELSE Repeat(RefillTask, RefillsScheduled(pool_len, dice_count))

\* the effect of one call on the engine
EngineRollDice(session_id, dice_count, dice_sides, modifier, difficulty, raws, lat) ==
    LET out == EngineOutcome(session_id, dice_count, dice_sides, modifier,
                             difficulty, raws, lat)
    IN /\ ret' = out
       /\ pool_len' = pool_len - DrawsOfCall(dice_count, dice_sides)
       /\ IF out.kind # "ok"
            THEN UNCHANGED <<roll_history, session_stats, response_times,
                             total_rolls, sub_100ms_count, issued>>
            ELSE LET roll == out.roll[1]
                 IN /\ issued' = [issued EXCEPT ![session_id] = @ + 1]
                    /\ response_times' = DequeAppend(response_times, lat, PerfMaxHistory)
                    /\ total_rolls' = total_rolls + 1
                    /\ sub_100ms_count' = sub_100ms_count + (IF lat < 100 THEN 1 ELSE 0)
                    /\ roll_history' = Put(roll_history, session_id,
                           DequeAppend(Get(roll_history, session_id, <<>>), roll,
                                       HistoryMaxLen))
                    /\ session_stats' = UpdateSessionStats(session_stats, session_id, roll)

\* PerformanceTracker.record_roll
RecordRoll(response_time_ms) ==
    /\ response_times' = DequeAppend(response_times, response_time_ms,
                                     PerfMaxHistory)
    /\ total_rolls' = total_rolls + 1
    /\ sub_100ms_count' = sub_100ms_count +
                             (IF response_time_ms < 100 THEN 1 ELSE 0)

\* PerformanceTracker.get_p95_response_time
GetP95ResponseTime ==
    IF response_times = <<>> THEN 0
    ELSE LET sorted_times == Sorted(response_times)
             p95_index == (Len(sorted_times) * 95) \div 100
         IN IF p95_index < Len(sorted_times) THEN sorted_times[p95_index + 1]
                                             ELSE sorted_times[Len(sorted_times)]

\* DiceEngine.get_recent_rolls: indexing the defaultdict inserts a missing key
EngineGetRecentRolls(session_id, limit) ==
    LET rolls == Get(roll_history, session_id, <<>>)
    IN /\ roll_history' = IF session_id \in DOMAIN roll_history
                             THEN roll_history
                             ELSE Put(roll_history, session_id, <<>>)
       /\ ret' = [kind |-> "rolls", roll |-> None, args |-> None,
                  session_id |-> session_id,
                  rolls |-> IF rolls # <<>> THEN SliceFrom(rolls, 0 - limit)
                                            ELSE <<>>]
       /\ UNCHANGED <<pool_len, session_stats, response_times, total_rolls,
                      sub_100ms_count, issued>>

\* DiceEngine.get_session_statistics: the counts it reports
EngineGetSessionStatistics(session_id) ==
    LET stats == Get(session_stats, session_id, NewStats)
    IN /\ ret' = [kind |-> "statistics", roll |-> None, args |-> None,
                  session_id |-> session_id,
                  total_rolls |-> stats.total_rolls,
                  success_count |-> stats.success_count]
       /\ UNCHANGED engineVars

\* a clear that forgets the history and keeps the statistics
EngineClearHistoryOnly(session_id) ==
    /\ roll_history' = Del(roll_history, session_id)
    /\ ret' = [kind |-> "cleared", roll |-> None, args |-> None,
               session_id |-> session_id]
    /\ UNCHANGED <<pool_len, session_stats, response_times, total_rolls,
                   sub_100ms_count, issued>>

\* DiceEngine.clear_session_data
EngineClearSessionData(session_id) ==
    /\ roll_history' = Del(roll_history, session_id)
    /\ session_stats' = Del(session_stats, session_id)
    /\ ret' = [kind |-> "cleared", roll |-> None, args |-> None,
               session_id |-> session_id]
    /\ UNCHANGED <<pool_len, response_times, total_rolls, sub_100ms_count,
                   issued>>

----------------------------------------------------------------------------
(* OptimizedDiceEngine; its database and cache writes are background tasks *)
(* that touch no state of the engine                                       *)

\* len(_random_pool) after _get_random_dice(count)
OptPoolAfter(len, count) ==
    (IF len < count THEN len + OptPoolSize ELSE len) - Max(count, 0)

\* the pydantic validation of models.DiceRoll
DiceRollValid(dice_count, results, total, modifier) ==
    /\ dice_count >= 1 /\ dice_count <= OptMaxDiceCount
    /\ Len(results) >= 1
    /\ \A i \in DOMAIN results : 1 <= results[i] /\ results[i] <= 6
    /\ Len(results) = dice_count
    /\ total >= 1
    /\ total = SumSeq(results) + modifier

\* roll_dice_optimized: `if difficulty is not None`
OptSuccess(total, difficulty) ==
    IF difficulty # None THEN Some(total >= difficulty[1]) ELSE None

\* bulk_roll_dice and RollResult.__init__: `... if difficulty else None`
TruthySuccess(total, difficulty) ==
    IF difficulty # None /\ difficulty[1] # 0
      THEN Some(total >= difficulty[1]) ELSE None

OptRoll(session_id, dice_count, results, total, difficulty, is_success, modifier) ==
    [session_id |-> session_id,
     dice_count |-> dice_count,
     results |-> results,
     total |-> total,
     difficulty |-> difficulty,
     is_success |-> is_success,
     modifier |-> modifier]

OptRaised == [kind |-> "ValidationError", rolls |-> <<>>]

RollDiceOptimized(session_id, dice_count, difficulty, modifier, values) ==
    LET clamped == Max(1, Min(OptMaxDiceCount, dice_count))
        dice_values == SubSeq(values, 1, clamped)
        final_total == SumSeq(dice_values) + modifier
        is_success == OptSuccess(final_total, difficulty)
        valid == DiceRollValid(clamped, dice_values, final_total, modifier)
    IN /\ Len(values) >= clamped
       /\ opt_pool_len' = OptPoolAfter(opt_pool_len, clamped)
       /\ opt_ret' = IF valid
                       THEN [kind |-> "ok",
                             rolls |-> <<OptRoll(session_id, clamped, dice_values,
                                                 final_total, difficulty,
                                                 is_success, modifier)>>]
                       ELSE OptRaised
       /\ opt_total_rolls' = opt_total_rolls + (IF valid THEN 1 ELSE 0)
       /\ UNCHANGED opt_batch_ops

\* roll_requests is a sequence of <<dice_count, difficulty>>
BulkOffset(roll_requests, k) ==
    SumSeq([j \in 1..(k - 1) |-> roll_requests[j][1]])

BulkRoll(session_id, roll_requests, values, k) ==
    LET dice_count == roll_requests[k][1]
        difficulty == roll_requests[k][2]
        start == BulkOffset(roll_requests, k)
        dice_values == SubSeq(values, start + 1, start + dice_count)
        total == SumSeq(dice_values)
    IN OptRoll(session_id, dice_count, dice_values, total, difficulty,
               TruthySuccess(total, difficulty), 0)

BulkRollDice(session_id, roll_requests, values) ==
    LET n == Len(roll_requests)
        total_dice_needed == BulkOffset(roll_requests, n + 1)
        rolls == [k \in 1..n |-> BulkRoll(session_id, roll_requests, values, k)]
        valid == \A k \in 1..n :
                    DiceRollValid(rolls[k].dice_count, rolls[k].results,
                                  rolls[k].total, 0)
    IN /\ Len(values) = total_dice_needed
       /\ opt_batch_ops' = opt_batch_ops + 1
       /\ opt_pool_len' = OptPoolAfter(opt_pool_len, total_dice_needed)
       /\ opt_ret' = IF valid THEN [kind |-> "ok", rolls |-> rolls] ELSE OptRaised
       /\ UNCHANGED opt_total_rolls

\* RollResult(values, session_id, difficulty=difficulty)
RollResult(values, session_id, difficulty) ==
    [values |-> values,
     total |-> SumSeq(values),
     session_id |-> session_id,
     difficulty |-> difficulty,
     is_success |-> TruthySuccess(SumSeq(values), difficulty)]

----------------------------------------------------------------------------
(* Python floats: IEEE 754 binary64, for positive values and zero.          *)
(* A float is [m, e]: m the 53 bits of the significand, most significant    *)
(* first, and the value is m * 2^e; zero has no bits.                       *)

Zeros(n) == [i \in 1..n |-> 0]

StripLeadingZeros(bits) ==
    IF \A i \in DOMAIN bits : bits[i] = 0 THEN <<>>
    ELSE SubSeq(bits,
                CHOOSE i \in DOMAIN bits :
                    bits[i] = 1 /\ \A j \in 1..(i - 1) : bits[j] = 0,
                Len(bits))

\* the carry into position i of the sum of two bit strings of one length:
\* some lower position generates it and every position between passes it on
CarryInto(a, b, i) ==
    IF \E j \in (i + 1)..Len(a) :
           /\ a[j] + b[j] = 2
           /\ \A k \in (i + 1)..(j - 1) : a[k] + b[k] >= 1
      THEN 1 ELSE 0

\* the sum of two bit strings of one length, one bit longer
AddBits(a, b) ==
    [i \in 1..(Len(a) + 1) |->
        IF i = 1 THEN CarryInto(a, b, 0)
        ELSE (a[i - 1] + b[i - 1] + CarryInto(a, b, i - 1)) % 2]

PadLeft(bits, n) == Zeros(n - Len(bits)) \o bits

\* the binary digits of a natural number
RECURSIVE ToBits(_)
ToBits(k) == IF k = 0 THEN <<>> ELSE ToBits(k \div 2) \o <<k % 2>>

DoubleZero == [m |-> <<>>, e |-> 0]
DoubleOne == [m |-> <<1>> \o Zeros(52), e |-> -52]

\* round-to-nearest-even of bits * 2^e (plus something below the last bit
\* when sticky) to 53 significant bits
RoundToDouble(bits, e, sticky) ==
    LET b == StripLeadingZeros(bits)
        L == Len(b)
    IN IF L = 0 THEN DoubleZero
       ELSE IF L <= 53 THEN [m |-> b \o Zeros(53 - L), e |-> e - (53 - L)]
       ELSE LET kept == SubSeq(b, 1, 53)
                dropped == SubSeq(b, 54, L)
                below == sticky \/ \E i \in 2..Len(dropped) : dropped[i] = 1
                up == dropped[1] = 1 /\ (below \/ kept[53] = 1)
                inc == AddBits(kept, Zeros(52) \o <<1>>)
            IN IF ~up THEN [m |-> kept, e |-> e + (L - 53)]
               ELSE IF inc[1] = 1
                   THEN [m |-> SubSeq(inc, 1, 53), e |-> e + (L - 53) + 1]
               ELSE [m |-> SubSeq(inc, 2, 54), e |-> e + (L - 53)]

\* x + y
DoubleAdd(x, y) ==
    IF x.m = <<>> THEN y
    ELSE IF y.m = <<>> THEN x
    ELSE LET e == Min(x.e, y.e)
             xb == x.m \o Zeros(x.e - e)
             yb == y.m \o Zeros(y.e - e)
             n == Max(Len(xb), Len(yb))
         IN RoundToDouble(AddBits(PadLeft(xb, n), PadLeft(yb, n)), e, FALSE)

\* the quotient bits of r / b after the binary point, until 54 significant
\* bits are there
RECURSIVE LongDivision(_, _, _, _)
LongDivision(r, b, bits, frac) ==
    IF Len(StripLeadingZeros(bits)) >= 54
        THEN RoundToDouble(bits, 0 - frac, r # 0)
    ELSE LongDivision((2 * r) % b, b, bits \o <<(2 * r) \div b>>, frac + 1)

\* a / b for integers a >= 0, b > 0 (true division is correctly rounded)
DoubleDiv(a, b) ==
    IF a = 0 THEN DoubleZero ELSE LongDivision(a % b, b, ToBits(a \div b), 0)

----------------------------------------------------------------------------
(* ProbabilityEngine (dice_engine.py) and the probability table of          *)
(* OptimizedDiceEngine                                                      *)

RECURSIVE Pow(_, _)
Pow(b, n) == IF n = 0 THEN 1 ELSE b * Pow(b, n - 1)

\* outcome_counts[result] after generate_all_combinations
RECURSIVE OutcomeCount(_, _, _)
OutcomeCount(dice_count, dice_sides, result) ==
    IF dice_count = 0 THEN (IF result = 0 THEN 1 ELSE 0)
    ELSE IF result <= 0 THEN 0
    ELSE SumSeq([roll \in 1..dice_sides |->
                    OutcomeCount(dice_count - 1, dice_sides, result - roll)])

\* _compute_probability_distribution: one float per sum, min_roll first
ProbabilityDistribution(dice_count, dice_sides) ==
    [i \in 1..(dice_count * dice_sides - dice_count + 1) |->
        DoubleDiv(OutcomeCount(dice_count, dice_sides, dice_count + i - 1),
                  Pow(dice_sides, dice_count))]

\* the loop of get_success_probability from index i on (i counts from 0)
RECURSIVE SuccessSum(_, _, _, _, _, _)
SuccessSum(probabilities, i, min_roll, modifier, difficulty, success_prob) ==
    IF i >= Len(probabilities) THEN success_prob
    ELSE SuccessSum(probabilities, i + 1, min_roll, modifier, difficulty,
                    IF min_roll + i + modifier >= difficulty
                      THEN DoubleAdd(success_prob, probabilities[i + 1])
                      ELSE success_prob)

\* ProbabilityEngine.get_success_probability; the cache only saves the
\* recomputation of the distribution
GetSuccessProbability(dice_count, dice_sides, modifier, difficulty) ==
    SuccessSum(ProbabilityDistribution(dice_count, dice_sides), 0, dice_count,
               modifier, difficulty, DoubleZero)

\* count_successes(dice_count, 0)
SuccessOutcomes(dice_count, difficulty) ==
    SumSeq([k \in 1..(6 * dice_count) |->
               IF k >= difficulty THEN OutcomeCount(dice_count, 6, k) ELSE 0])

\* the normal approximation of five dice and more is not computed here
NormalApproximation(dice_count, difficulty) ==
    [m |-> <<>>, e |-> 0, approximation_of |-> <<dice_count, difficulty>>]

\* OptimizedDiceEngine._calculate_exact_probability
CalculateExactProbability(dice_count, difficulty) ==
    IF difficulty <= dice_count THEN DoubleOne
    ELSE IF difficulty > dice_count * 6 THEN DoubleZero
    ELSE IF dice_count <= 4
        THEN DoubleDiv(SuccessOutcomes(dice_count, difficulty), Pow(6, dice_count))
    ELSE NormalApproximation(dice_count, difficulty)

\* OptimizedDiceEngine.get_roll_probability: the table holds
\* _calculate_exact_probability for 1..10 dice and difficulties 1..60
GetRollProbability(dice_count, difficulty, modifier) ==
    LET adjusted_difficulty == difficulty - modifier
    IN IF dice_count \in 1..10 /\ adjusted_difficulty \in 1..60
         THEN CalculateExactProbability(dice_count, adjusted_difficulty)
         ELSE CalculateExactProbability(dice_count, adjusted_difficulty)

----------------------------------------------------------------------------
(* DiceRollingEngine (dice_service.py) *)

\* the services that construct a DiceRollingEngine of their own
Instances == {"session_service", "cached_session_service"}
SvcMaxHistory == 1000

\* _validate_roll_request passes
ValidateRollRequest(dice_count, difficulty, modifier) ==
    /\ ~(dice_count < 1 \/ dice_count > 10)
    /\ ~(difficulty # None /\ (difficulty[1] < 1 \/ difficulty[1] > 36))
    /\ ~((IF modifier < 0 THEN 0 - modifier ELSE modifier) > 20)

\* _calculate_animation_duration
AnimationDuration(dice_count) == Min(800 + (dice_count - 1) * 100, 2000)

\* what roll_dice returns or raises; values are the dice _rng.randint draws
SvcOutcome(session_id, dice_count, difficulty, modifier, values) ==
    LET total == SumSeq(values) + modifier
        is_success == OptSuccess(total, difficulty)
    IN IF ~ValidateRollRequest(dice_count, difficulty, modifier)
          THEN [kind |-> "ValueError"]
       ELSE IF ~DiceRollValid(dice_count, values, total, modifier)
          THEN [kind |-> "ValidationError"]
       ELSE [kind |-> "ok",
             roll |-> OptRoll(session_id, dice_count, values, total, difficulty,
                              is_success, modifier),
             animation_duration_ms |-> AnimationDuration(dice_count)]

\* _track_performance: the list belongs to the class; `self._roll_count += 1`
\* reads the attribute (the class's 0 at first) and assigns it on the instance
TrackPerformance(instance, elapsed_time_ms) ==
    /\ svc_roll_times' =
          LET appended_to == Append(svc_roll_times, elapsed_time_ms)
          IN IF Len(appended_to) > SvcMaxHistory THEN Tail(appended_to)
                                                ELSE appended_to
    /\ svc_roll_count' = Put(svc_roll_count, instance,
                             Get(svc_roll_count, instance, 0) + 1)

\* DiceRollingEngine.roll_dice: the outcome is tracked on both paths
SvcRollDice(instance, session_id, dice_count, difficulty, modifier, values, elapsed_time_ms) ==
    /\ svc_ret' = SvcOutcome(session_id, dice_count, difficulty, modifier, values)
    /\ TrackPerformance(instance, elapsed_time_ms)

\* sorted_times[int(count * fraction)], fraction in hundredths
PercentileOf(sorted_times, hundredths) ==
    sorted_times[((Len(sorted_times) * hundredths) \div 100) + 1]

\* DiceRollingEngine.get_performance_stats (the average as sum and count)
SvcPerformanceStats(instance) ==
    IF svc_roll_times = <<>>
      THEN [kind |-> "stats", total_rolls |-> 0, avg_time_ms |-> <<0, 1>>,
            p95_time_ms |-> 0, p99_time_ms |-> 0, max_time_ms |-> 0]
      ELSE LET sorted_times == Sorted(svc_roll_times)
           IN [kind |-> "stats",
               total_rolls |-> Get(svc_roll_count, instance, 0),
               avg_time_ms |-> <<SumSeq(sorted_times), Len(sorted_times)>>,
               p95_time_ms |-> PercentileOf(sorted_times, 95),
               p99_time_ms |-> PercentileOf(sorted_times, 99),
               max_time_ms |-> sorted_times[Len(sorted_times)]]

SvcGetPerformanceStats(instance) ==
    /\ svc_ret' = SvcPerformanceStats(instance)
    /\ UNCHANGED <<svc_roll_times, svc_roll_count>>

----------------------------------------------------------------------------
(* RollQueue *)

MakeBroadcast(roll) ==
    [roll_id |-> roll.id,
     session_id |-> roll.session_id,
     roll_data |-> roll,
     broadcast_time |-> now]

\* an add_roll onto a queue without maxlen
AddRollQueueUnbounded(q, roll) == Append(q, MakeBroadcast(roll))

\* RollQueue.add_roll: the new _queue and _session_queues
AddRollQueue(q, roll) == DequeAppend(q, MakeBroadcast(roll), QueueMaxSize)

\* an add_roll that puts the broadcast at the head of the session queue
AddRollSessionFront(sq, roll) ==
    Put(sq, roll.session_id,
        <<MakeBroadcast(roll)>> \o Get(sq, roll.session_id, <<>>))

AddRollSession(sq, roll) ==
    Put(sq, roll.session_id,
        DequeAppend(Get(sq, roll.session_id, <<>>), MakeBroadcast(roll),
                    SessionQueueMaxLen))

\* RollQueue.get_recent_rolls: list(session_queue)[-limit:]
QueueRecentRolls(session_id, limit) ==
    LET session_queue == Get(session_queues, session_id, <<>>)
    IN IF session_queue # <<>> THEN SliceFrom(session_queue, 0 - limit) ELSE <<>>

\* RollQueue.get_session_updates: broadcasts with broadcast_time > since
RECURSIVE FilterSince(_, _)
FilterSince(q, since) ==
    IF q = <<>> THEN <<>>
    ELSE IF Head(q).broadcast_time > since
        THEN <<Head(q)>> \o FilterSince(Tail(q), since)
        ELSE FilterSince(Tail(q), since)

QueueSessionUpdates(session_id, since) ==
    FilterSince(Get(session_queues, session_id, <<>>), since)

\* a cleanup that pops at most one broadcast
DropOldOnce(q, cutoff) ==
    IF q # <<>> /\ Head(q).broadcast_time < cutoff THEN Tail(q) ELSE q

\* pop from the left while the head is older than the cutoff: what is left
\* starts at the first broadcast that is not older
DropOld(q, cutoff) ==
    LET kept == {i \in 1..Len(q) : q[i].broadcast_time >= cutoff}
    IN IF kept = {} THEN <<>>
       ELSE SubSeq(q, CHOOSE i \in kept : \A j \in kept : i <= j, Len(q))

\* RollQueue.cleanup_old_broadcasts: the session queues that remain
CleanSessionQueues(sq, cutoff) ==
    LET kept == {s \in DOMAIN sq : DropOld(sq[s], cutoff) # <<>>}
    IN [s \in kept |-> DropOld(sq[s], cutoff)]

\* RollQueue.clear_session: the deque is emptied, its key stays
ClearSessionQueues(sq, cleared) ==
    [s \in DOMAIN sq |-> IF s \in cleared THEN <<>> ELSE sq[s]]

----------------------------------------------------------------------------
(* DiceBroadcaster._maybe_cleanup / _cleanup_old_data / clear_session_data *)

CleanupDue == now - last_cleanup > CleanupInterval

\* sessions _cleanup_old_data finds inactive
InactiveSessions(active) ==
    {s \in active : /\ s \in DOMAIN last_modified
                    /\ last_modified[s] # 0
                    /\ last_modified[s] < now - InactiveAfter}

\* DiceBroadcaster.broadcast_roll, the whole coroutine
BroadcastRoll(roll) ==
    LET q1 == AddRollQueue(queue, roll)
        sq1 == AddRollSession(session_queues, roll)
        act1 == active_sessions \cup {roll.session_id}
        gone == InactiveSessions(act1)
    IN /\ IF CleanupDue
            THEN /\ queue' = DropOld(q1, now - BroadcastMaxAge)
                 /\ session_queues' =
                        ClearSessionQueues(
                            CleanSessionQueues(sq1, now - BroadcastMaxAge), gone)
                 /\ active_sessions' = act1 \ gone
                 /\ session_subscribers' =
                        [s \in (DOMAIN session_subscribers) \ gone |->
                            session_subscribers[s]]
                 /\ last_cleanup' = now
            ELSE /\ queue' = q1
                 /\ session_queues' = sq1
                 /\ active_sessions' = act1
                 /\ UNCHANGED <<session_subscribers, last_cleanup>>
       /\ appended' = appended \cup {roll.session_id}
       /\ UNCHANGED <<etags, last_modified>>

----------------------------------------------------------------------------
(* ETagManager and the polls of DiceBroadcaster *)

\* response data whose hash leaves the rolls out
RecentDataNoRolls(session_id, rolls) ==
    [kind |-> "recent", session_id |-> session_id, rolls |-> <<>>,
     count |-> 0, timestamp |-> now]

\* hashlib.md5(json.dumps(data, sort_keys=True)): the data stand for their hash
RecentData(session_id, rolls) ==
    [kind |-> "recent", session_id |-> session_id, rolls |-> rolls,
     count |-> Len(rolls), timestamp |-> now]

UpdatesData(session_id, updates) ==
    [kind |-> "updates", session_id |-> session_id, updates |-> updates,
     update_count |-> Len(updates), timestamp |-> now,
     has_updates |-> Len(updates) > 0]

\* a check_etag that only looks whether an ETag is there
CheckEtagAny(current, client_etag) ==
    client_etag # None

\* ETagManager.check_etag right after generate_etag stored `current`
CheckEtag(current, client_etag) ==
    client_etag # None /\ current = client_etag[1]

\* `if client_etag and self.etag_manager.check_etag(...)`
PollResult(data, client_etag) ==
    IF CheckEtag(data, client_etag)
        THEN [not_modified |-> TRUE, etag |-> data, data |-> None]
        ELSE [not_modified |-> FALSE, etag |-> data, data |-> Some(data)]

\* the handlers write the header as f'"{etag}"'
Quoted(etag) == [quoted |-> etag]

\* JSONResponse of GET /recent and GET /updates
PollResponse(op, session_id, param, result, client_etag) ==
    [op |-> op,
     session_id |-> session_id,
     param |-> param,
     ledger_len |-> Len(Get(session_queues, session_id, <<>>)),
     status |-> IF result.not_modified THEN 304 ELSE 200,
     body |-> result.data,
     etag |-> Some(result.etag),
     etag_header |-> Some(Quoted(result.etag)),
     presented |-> client_etag,
     prev |-> IF session_id \in DOMAIN etags THEN Some(etags[session_id]) ELSE None,
     appended_since |-> session_id \in appended]

\* what a client can send as If-None-Match: nothing, the etag in the body of
\* the previous poll of the session (the one the ETagManager holds), or the
\* ETag header of that poll
ClientEtags(session_id) ==
    {None} \cup
    (IF session_id \in DOMAIN etags
        THEN {Some(etags[session_id]), Some(Quoted(etags[session_id]))}
        ELSE {})

\* DiceBroadcaster.get_recent_rolls behind GET /recent/{session_id}
ApiGetRecent(session_id, limit, client_etag) ==
    LET recent_broadcasts == QueueRecentRolls(session_id, limit)
        recent_rolls == [i \in 1..Len(recent_broadcasts) |->
                            recent_broadcasts[i].roll_data]
        data == RecentData(session_id, recent_rolls)
        result == PollResult(data, client_etag)
    IN /\ etags' = Put(etags, session_id, data)
       /\ last_modified' = Put(last_modified, session_id, now)
       /\ http' = PollResponse("recent", session_id, limit, result, client_etag)
       /\ appended' = appended \ {session_id}
       /\ UNCHANGED <<engineVars, optVars, svcVars, clientVars, envVars, ret, queue, session_queues,
                      active_sessions, session_subscribers, last_cleanup>>

\* subscribe_session + DiceBroadcaster.get_session_updates behind GET /updates
ApiGetUpdates(session_id, since, client_etag) ==
    LET since_ts == IF since = None THEN now - DefaultSinceWindow ELSE since[1]
        updates == QueueSessionUpdates(session_id, since_ts)
        data == UpdatesData(session_id, updates)
        result == PollResult(data, client_etag)
    IN /\ active_sessions' = active_sessions \cup {session_id}
       /\ session_subscribers' =
              Put(session_subscribers, session_id,
                  Get(session_subscribers, session_id, 0) + 2)
       /\ etags' = Put(etags, session_id, data)
       /\ last_modified' = Put(last_modified, session_id, now)
       /\ http' = PollResponse("updates", session_id, since_ts, result, client_etag)
       /\ appended' = appended \ {session_id}
       /\ UNCHANGED <<engineVars, optVars, svcVars, clientVars, envVars, ret, queue, session_queues,
                      last_cleanup>>

\* DiceBroadcaster.get_session_updates called by a client that passes the
\* 'timestamp' of the previous response as `since` (None the first time) and
\* no ETag, and keeps the roll ids of the updates it is handed
ClientPoll(session_id) ==
    LET since_ts == IF client_since = None THEN now - DefaultSinceWindow
                    ELSE client_since[1]
        updates == QueueSessionUpdates(session_id, since_ts)
        data == UpdatesData(session_id, updates)
        result == PollResult(data, None)
    IN /\ session_subscribers' =
              Put(session_subscribers, session_id,
                  Get(session_subscribers, session_id, 0) + 1)
       /\ etags' = Put(etags, session_id, data)
       /\ last_modified' = Put(last_modified, session_id, now)
       /\ http' = PollResponse("updates", session_id, since_ts, result, None)
       /\ appended' = appended \ {session_id}
       /\ client_since' = Some(data.timestamp)
       /\ client_received' =
              client_received \o [i \in 1..Len(updates) |-> updates[i].roll_id]
       /\ UNCHANGED <<engineVars, optVars, svcVars, envVars, ret, queue,
                      session_queues, active_sessions, last_cleanup>>

----------------------------------------------------------------------------
(* POST /roll *)

\* pydantic DiceRollRequest: FastAPI answers 422 before the handler runs
RequestValid(dice_count, modifier, difficulty) ==
    /\ dice_count >= 1 /\ dice_count <= 20
    /\ modifier >= -50 /\ modifier <= 50
    /\ difficulty # None => (difficulty[1] >= 1 /\ difficulty[1] <= 30)

\* a handler that awaits store_dice_roll and lets its failure through
RollHandlerStatusAwaitingStore(kind) ==
    IF kind = "ok" /\ dbUp THEN 200
    ELSE IF kind = "ValueError" THEN 400
    ELSE 500

\* the status the try/except of the handler ends with, given how
\* dice_engine.roll_dice ended ("bad_sides": the handler's own HTTPException(400),
\* which `except Exception` catches and re-raises as 500)
RollHandlerStatus(kind) ==
    IF kind = "ok" THEN 200
    ELSE IF kind = "ValueError" THEN 400
    ELSE 500

StoreTask(roll) == [kind |-> "store", roll |-> Some(roll)]

\* a handler that schedules the store a second time and never the broadcast
BroadcastTaskNeverScheduled(roll) == [kind |-> "store", roll |-> Some(roll)]

BroadcastTask(roll) == [kind |-> "broadcast", roll |-> Some(roll)]

RollResponse(status, args, out) ==
    [op |-> "roll", status |-> status, args |-> args,
     engine_roll |-> out,
     body |-> IF status = 200 THEN out ELSE None,
     etag_header |-> IF status = 200 THEN Some(Quoted(out[1].id)) ELSE None]

ApiRollDice(session_id, dice_count, dice_sides, modifier, difficulty, raws, lat) ==
    LET args == [session_id |-> session_id, dice_count |-> dice_count,
                 dice_sides |-> dice_sides, modifier |-> modifier,
                 difficulty |-> difficulty]
    IN IF ~RequestValid(dice_count, modifier, difficulty)
         THEN /\ http' = RollResponse(422, args, None)
              /\ UNCHANGED <<engineVars, bcastVars, optVars, svcVars, clientVars, envVars, ret, appended>>
       ELSE IF dice_sides \notin DiceSidesAllowed
         THEN /\ http' = RollResponse(RollHandlerStatus("bad_sides"), args, None)
              /\ UNCHANGED <<engineVars, bcastVars, optVars, svcVars, clientVars, envVars, ret, appended>>
       ELSE LET out == EngineOutcome(session_id, dice_count, dice_sides,
                                     modifier, difficulty, raws, lat)
            IN /\ EngineRollDice(session_id, dice_count, dice_sides, modifier,
                                 difficulty, raws, lat)
               /\ tasks' = tasks \o EngineTasks(dice_count, dice_sides) \o
                           (IF out.kind = "ok"
                               THEN <<StoreTask(out.roll[1]),
                                      BroadcastTask(out.roll[1])>>
                               ELSE <<>>)
               /\ http' = RollResponse(RollHandlerStatus(out.kind), args, out.roll)
               /\ UNCHANGED <<bcastVars, optVars, svcVars, clientVars, now, dbUp, stored, appended>>

----------------------------------------------------------------------------
(* The event loop runs the task at the head of the ready queue *)

\* DiceHistoryService.store_dice_roll: every exception is caught and printed
RunStore(roll) ==
    /\ stored' = Put(stored, roll.id, dbUp)
    /\ UNCHANGED <<engineVars, bcastVars, appended>>

RunBroadcast(roll) ==
    /\ BroadcastRoll(roll)
    /\ UNCHANGED <<engineVars, stored>>

\* SecureRandomGenerator._async_refill_pool: sleep(0), then _fill_random_pool
RunRefill(kind) ==
    /\ pool_len' = IF kind = "refill_fill" THEN Max(pool_len, PoolSize) ELSE pool_len
    /\ UNCHANGED <<roll_history, session_stats, response_times, total_rolls,
                   sub_100ms_count, issued, bcastVars, stored, appended>>

RunTask ==
    /\ tasks # <<>>
    /\ LET t == Head(tasks)
       IN /\ tasks' = IF t.kind = "refill"
                        THEN Append(Tail(tasks), [kind |-> "refill_fill", roll |-> None])
                        ELSE Tail(tasks)
          /\ IF t.kind = "store" THEN RunStore(t.roll[1])
             ELSE IF t.kind = "broadcast" THEN RunBroadcast(t.roll[1])
             ELSE RunRefill(t.kind)
    /\ UNCHANGED <<optVars, svcVars, clientVars, now, dbUp, ret, http>>

----------------------------------------------------------------------------
(* GET /health *)

\* get_performance_stats()['performance_health']
PerformanceHealth ==
    IF GetP95ResponseTime < 50 THEN "excellent"
    ELSE IF GetP95ResponseTime < 100 THEN "good"
    ELSE "degraded"

\* DiceBroadcaster.health_check()['status']
HealthCheckStatus ==
    IF Len(queue) > 5000 THEN "overloaded"
    ELSE IF Cardinality(active_sessions) > 100 THEN "busy"
    ELSE "healthy"

\* DiceBroadcaster.health_check
BcastHealthCheck ==
    /\ http' = [op |-> "health_check",
                status |-> HealthCheckStatus,
                active_sessions |-> Cardinality(active_sessions),
                queue_size |-> Len(queue),
                last_cleanup_age |-> now - last_cleanup,
                memory_usage |->
                    [roll_queue |-> Len(queue),
                     session_queues |-> Cardinality(DOMAIN session_queues),
                     etag_cache |-> Cardinality(DOMAIN etags)]]
    /\ UNCHANGED <<engineVars, bcastVars, optVars, svcVars, clientVars, envVars,
                   ret, appended>>

\* dice_system_health: overall_health
OverallHealth ==
    IF GetP95ResponseTime > 100 \/ HealthCheckStatus = "overloaded"
        THEN "degraded"
    ELSE IF GetP95ResponseTime > 75 \/ HealthCheckStatus = "busy"
        THEN "warning"
    ELSE "healthy"

ApiHealth ==
    /\ http' = [op |-> "health",
                status |-> OverallHealth,
                timestamp |-> now,
                engine_status |-> PerformanceHealth,
                p95_response_time_ms |-> GetP95ResponseTime,
                broadcaster_status |-> HealthCheckStatus,
                queue_size |-> Len(queue)]
    /\ UNCHANGED <<engineVars, bcastVars, optVars, svcVars, clientVars, envVars,
                   ret, appended>>

----------------------------------------------------------------------------
(* Environment *)

Tick(d) ==
    /\ now' = now + d
    /\ UNCHANGED <<engineVars, bcastVars, optVars, svcVars, clientVars, dbUp, tasks, stored, obsVars>>

DbToggle ==
    /\ dbUp' = ~dbUp
    /\ UNCHANGED <<engineVars, bcastVars, optVars, svcVars, clientVars, now, tasks, stored, obsVars>>

----------------------------------------------------------------------------
Init ==
    /\ pool_len = PoolSize
    /\ roll_history = EmptyDict
    /\ session_stats = EmptyDict
    /\ response_times = <<>>
    /\ total_rolls = 0
    /\ sub_100ms_count = 0
    /\ issued = [s \in Sessions |-> 0]
    /\ queue = <<>>
    /\ session_queues = EmptyDict
    /\ etags = EmptyDict
    /\ last_modified = EmptyDict
    /\ active_sessions = {}
    /\ session_subscribers = EmptyDict
    /\ last_cleanup = StartTime
    /\ opt_pool_len = OptPoolSize
    /\ opt_total_rolls = 0
    /\ opt_batch_ops = 0
    /\ opt_ret = [kind |-> "none", rolls |-> <<>>]
    /\ svc_roll_times = <<>>
    /\ svc_roll_count = EmptyDict
    /\ svc_ret = [kind |-> "none"]
    /\ client_since = None
    /\ client_received = <<>>
    /\ now = StartTime
    /\ dbUp = TRUE
    /\ tasks = <<>>
    /\ stored = EmptyDict
    /\ ret = [kind |-> "none", roll |-> None, args |-> None]
    /\ http = [op |-> "none"]
    /\ appended = {}

----------------------------------------------------------------------------
(* Direct calls of DiceEngine.roll_dice *)
CountsR  == {0, 1, 2, MaxDiceCount, MaxDiceCount + 1}
SidesR   == {6, 7}
ModsR    == {-1, 2}

CallRollDice ==
    /\ \E s \in Sessions, c \in CountsR, d \in SidesR, m \in ModsR :
         \E raws \in RawSeqs(c) :
            /\ ValidRoll(c, d) => total_rolls < MaxCalls
            /\ EngineRollDice(s, c, d, m, None, raws, 10)
            /\ tasks' = tasks \o EngineTasks(c, d)
    /\ UNCHANGED <<bcastVars, optVars, svcVars, clientVars, now, dbUp, stored, http, appended>>

NextRoll == CallRollDice
SpecRoll == Init /\ [][NextRoll]_vars

----------------------------------------------------------------------------
(* The HTTP service: roll requests, background tasks, polls, clock *)
MaxTicks    == 1
MaxApiRolls == 1

ClockValues(steps, max_ticks) ==
    {StartTime + SumSeq(q) : q \in UNION {[1..n -> steps] : n \in 0..max_ticks}}

ClockTick(steps, max_ticks) ==
    \E d \in steps : now + d \in ClockValues(steps, max_ticks) /\ Tick(d)

CountsA == {1, MaxDiceCount + 1}
SidesA  == {6, 7}
ModsA   == {0, 51}
LimitsA == {-1, 0, 1}
TickStepsA == {1, CleanupInterval + 1}

PostRoll ==
    \E s \in Sessions, c \in CountsA, d \in SidesA, m \in ModsA,
       raw \in {0, LargeRaw} :
        /\ (RequestValid(c, m, None) /\ d \in DiceSidesAllowed)
              => total_rolls < MaxApiRolls
        /\ ApiRollDice(s, c, d, m, None, <<raw>>, 10)

GetRecent ==
    \E s \in Sessions, limit \in LimitsA :
        \E e \in ClientEtags(s) : ApiGetRecent(s, limit, e)

ClockTickA == ClockTick(TickStepsA, MaxTicks)

Next ==
    \/ PostRoll
    \/ RunTask
    \/ GetRecent
    \/ ClockTickA
    \/ DbToggle

Spec == Init /\ [][Next]_vars

----------------------------------------------------------------------------
(* POST /roll with its background tasks and a database that comes and goes *)
MaxStoreRolls == 2

PostRollS ==
    \E s \in Sessions, d \in SidesA, raw \in {0, LargeRaw} :
        /\ d \in DiceSidesAllowed => total_rolls < MaxStoreRolls
        /\ ApiRollDice(s, 1, d, 0, None, <<raw>>, 10)

NextStore ==
    \/ PostRollS
    \/ RunTask
    \/ DbToggle

SpecStore == Init /\ [][NextStore]_vars

----------------------------------------------------------------------------
(* C1: every roll that DiceEngine.roll_dice returns has exactly dice_count *)
(* die values, each within 1..dice_sides, and its result is their sum plus *)
(* the modifier.                                                           *)
RollWellFormed ==
    ret.kind = "ok" =>
        LET r == ret.roll[1]
        IN /\ Len(r.individual_rolls) = ret.args.dice_count
           /\ \A i \in 1..Len(r.individual_rolls) :
                 /\ r.individual_rolls[i] >= 1
                 /\ r.individual_rolls[i] <= ret.args.dice_sides
           /\ r.result = SumSeq(r.individual_rolls) + ret.args.modifier

RollWellFormedWitness ==
    /\ ret.kind = "ok"
    /\ ret.args.dice_count = MaxDiceCount
    /\ ret.args.modifier < 0

(* C3: a call of DiceEngine.roll_dice with dice_count outside 1..20 or     *)
(* dice_sides outside {4,6,8,10,12,20} raises the validation error and     *)
(* leaves the random pool, every roll history, the session statistics and  *)
(* the performance tracker as they were.                                   *)
InvalidRollRejected ==
    [][ (/\ ret' # ret
         /\ ret'.kind # "none"
         /\ ~ValidRoll(ret'.args.dice_count, ret'.args.dice_sides))
        => (/\ ret'.kind = "ValueError"
            /\ UNCHANGED <<pool_len, roll_history, session_stats,
                           response_times, total_rolls, sub_100ms_count>>) ]_vars

InvalidRollRejectedWitness ==
    /\ ret.kind = "ValueError"
    /\ ret.args.dice_count = MaxDiceCount + 1
    /\ total_rolls > 0
    /\ pool_len < PoolSize

----------------------------------------------------------------------------
(* Polls of sessions whose ledger is missing, emptied by the janitor or     *)
(* dropped by the broadcast purge                                          *)
MaxPollRolls == 2
LimitsP    == {0, 1}
TickStepsP == {InactiveAfter + 1, BroadcastMaxAge + 1}

PostRollP ==
    \E s \in Sessions :
        /\ total_rolls < MaxPollRolls
        /\ ApiRollDice(s, 1, 6, 0, None, <<LargeRaw>>, 10)

\* the polled session is "A"; the rolls of the others run the cleanup
GetRecentP ==
    \E limit \in LimitsP :
        \E e \in ClientEtags("A") : ApiGetRecent("A", limit, e)

ClockTickP == ClockTick(TickStepsP, MaxTicks)

NextPoll ==
    \/ PostRollP
    \/ RunTask
    \/ GetRecentP
    \/ ClockTickP

SpecPoll == Init /\ [][NextPoll]_vars

----------------------------------------------------------------------------
(* Long runs of rolls that fill the per-session ledgers past their capacity *)
MaxLedgerRolls == 102
MaxPending     == 1
MaxOtherRolls  == 1

\* the rolls go to session "A"; the other sessions roll MaxOtherRolls times,
\* before the run or once the ledger of "A" is full
PostRollL ==
    \E s \in Sessions :
        /\ total_rolls < MaxLedgerRolls
        /\ s # "A" => /\ issued[s] < MaxOtherRolls
                      /\ issued["A"] = 0 \/ issued["A"] >= HistoryMaxLen
        /\ Len(tasks) < MaxPending
        /\ ApiRollDice(s, 1, 6, 0, None, <<LargeRaw>>, 10)

NextLedger ==
    \/ PostRollL
    \/ RunTask

SpecLedger == Init /\ [][NextLedger]_vars

----------------------------------------------------------------------------
(* The three roll operations, with and without a difficulty *)
MaxOptCalls   == 2
MaxOptDraws   == 3
OptDieValues  == {1, 6}
CountsO       == {0, 1, 2}
ModsO         == {-1, 0}
DifficultiesO == {None, Some(0), Some(4)}
RequestsO     == CountsO \X DifficultiesO
BulkRequestsO == {<<r>> : r \in RequestsO} \cup
                 {<<r, <<1, None>>>> : r \in RequestsO}

OptCalls == total_rolls + opt_total_rolls + opt_batch_ops
OptDraws == OptPoolSize - opt_pool_len

CallRollDiceO ==
    /\ OptCalls < MaxOptCalls
    /\ \E s \in Sessions, diff \in DifficultiesO, raws \in RawSeqs(1) :
          /\ EngineRollDice(s, 1, 6, 0, diff, raws, 10)
          /\ tasks' = tasks \o EngineTasks(1, 6)
    /\ UNCHANGED <<bcastVars, optVars, svcVars, clientVars, now, dbUp, stored, http, appended>>

CallRollDiceOptimized ==
    /\ OptCalls < MaxOptCalls
    /\ OptDraws < MaxOptDraws
    /\ \E s \in Sessions, c \in CountsO, diff \in DifficultiesO, m \in ModsO :
          \E values \in [1..Max(1, c) -> OptDieValues] :
             RollDiceOptimized(s, c, diff, m, values)
    /\ UNCHANGED <<engineVars, bcastVars, envVars, obsVars, svcVars, clientVars>>

CallBulkRollDice ==
    /\ OptCalls < MaxOptCalls
    /\ \E s \in Sessions, reqs \in BulkRequestsO :
          \E values \in [1..BulkOffset(reqs, Len(reqs) + 1) -> OptDieValues] :
             BulkRollDice(s, reqs, values)
    /\ UNCHANGED <<engineVars, bcastVars, envVars, obsVars, svcVars, clientVars>>

NextOpt ==
    \/ CallRollDiceO
    \/ CallRollDiceOptimized
    \/ CallBulkRollDice

SpecOpt == Init /\ [][NextOpt]_vars

----------------------------------------------------------------------------
(* Rolls that drain the random pool while the refill tasks wait their turn *)
MaxDrainRolls == 501

\* the calls come while the event loop is idle, or in a burst ahead of every
\* refill task scheduled since the pool fell below the low-water mark
DrainRoll ==
    /\ total_rolls < MaxDrainRolls
    /\ \/ tasks = <<>>
       \/ /\ Len(tasks) = LowWater - 1 - pool_len
          /\ \A i \in DOMAIN tasks : tasks[i] = RefillTask
    /\ \E raws \in RawSeqs(MaxDiceCount) :
          /\ raws[1] = 1
          /\ EngineRollDice("A", MaxDiceCount, 6, 0, None, raws, 10)
    /\ tasks' = tasks \o EngineTasks(MaxDiceCount, 6)
    /\ UNCHANGED <<bcastVars, optVars, svcVars, clientVars, now, dbUp, stored, http, appended>>

NextDrain ==
    \/ DrainRoll
    \/ RunTask

SpecDrain == Init /\ [][NextDrain]_vars

----------------------------------------------------------------------------
(* Rolls and polls with an event loop that keeps running its ready tasks *)
MaxLiveRolls == 2

PostRollV ==
    \E s \in Sessions :
        /\ total_rolls < MaxLiveRolls
        /\ ApiRollDice(s, 1, 6, 0, None, <<LargeRaw>>, 10)

GetRecentV ==
    \E s \in Sessions : ApiGetRecent(s, SessionQueueMaxLen, None)

NextLive ==
    \/ PostRollV
    \/ RunTask
    \/ GetRecentV

\* the asyncio loop runs every task that is ready
SpecLive == Init /\ [][NextLive]_vars /\ WF_vars(RunTask)

----------------------------------------------------------------------------
(* The same service with the event loop and the clock running on: nothing  *)
(* else in the broadcaster is scheduled, it starts no timer of its own     *)
GetRecentJ ==
    \E s \in Sessions, limit \in LimitsP : ApiGetRecent(s, limit, None)

NextJanitor ==
    \/ PostRollP
    \/ RunTask
    \/ GetRecentJ
    \/ ClockTickP

\* the loop runs its ready tasks, time passes and the clients keep polling
SpecJanitor ==
    /\ Init /\ [][NextJanitor]_vars
    /\ WF_vars(RunTask) /\ WF_vars(ClockTickP) /\ WF_vars(GetRecentJ)

----------------------------------------------------------------------------
(* Rolls spread over hours, so that a sweep meets several old broadcasts *)
MaxSweepRolls == 3
MaxSweepTicks == 2
TickStepsS == {CleanupInterval + 1, BroadcastMaxAge + 1}

PostRollS2 ==
    \E s \in Sessions :
        /\ total_rolls < MaxSweepRolls
        /\ tasks = <<>>
        /\ ApiRollDice(s, 1, 6, 0, None, <<LargeRaw>>, 10)

GetRecentS == ApiGetRecent("A", 1, None)

ClockTickS == ClockTick(TickStepsS, MaxSweepTicks)

NextSweep ==
    \/ PostRollS2
    \/ RunTask
    \/ GetRecentS
    \/ ClockTickS

SpecSweep == Init /\ [][NextSweep]_vars

----------------------------------------------------------------------------
(* DiceEngine alone: rolls past the history's capacity, reads and clears *)
MaxEngineRolls == 102
MaxShortLen == 1
DifficultiesE == {None, Some(1), Some(7)}
LimitsE == {1, 10}

\* session "A" rolls on past the capacity, the others roll a little
CallRollDiceE ==
    /\ \E s \in Sessions, df \in DifficultiesE :
          /\ total_rolls < MaxEngineRolls
          /\ s # "A" => /\ issued[s] < MaxShortLen
                         /\ (issued["A"] = 0 \/ issued["A"] >= HistoryMaxLen)
          /\ issued[s] >= MaxShortLen => df = Some(1)
          /\ EngineRollDice(s, 1, 6, 0, df, <<LargeRaw>>, 10)
    /\ UNCHANGED <<bcastVars, optVars, svcVars, clientVars, envVars, http, appended>>

CallGetRecentRolls ==
    /\ \E s \in Sessions, limit \in LimitsE : EngineGetRecentRolls(s, limit)
    /\ UNCHANGED <<bcastVars, optVars, svcVars, clientVars, envVars, http, appended>>

CallGetSessionStatistics ==
    /\ \E s \in Sessions : EngineGetSessionStatistics(s)
    /\ UNCHANGED <<bcastVars, optVars, svcVars, clientVars, envVars, http, appended>>

\* a session is cleared early on or once its history is full
CallClearSessionData ==
    /\ \E s \in Sessions :
          /\ \/ issued[s] <= MaxShortLen
             \/ Len(Get(roll_history, s, <<>>)) = HistoryMaxLen
          /\ EngineClearSessionData(s)
    /\ UNCHANGED <<bcastVars, optVars, svcVars, clientVars, envVars, http, appended>>

NextEngine ==
    \/ CallRollDiceE
    \/ CallGetRecentRolls
    \/ CallGetSessionStatistics
    \/ CallClearSessionData

SpecEngine == Init /\ [][NextEngine]_vars

----------------------------------------------------------------------------
(* The two DiceRollingEngine instances of the session services *)
MaxSvcRolls == 3
CountsV == {1, 2}
DifficultiesV == {None, Some(0), Some(1), Some(36)}
ModsV == {-21, -20, 0, 20}
DieValuesV == {1, 6}
LatenciesV == {10, 120}

CallSvcRollDice ==
    /\ Len(svc_roll_times) < MaxSvcRolls
    /\ \E inst \in Instances, c \in CountsV, df \in DifficultiesV, m \in ModsV,
          e \in LatenciesV :
          \E values \in [1..c -> DieValuesV] :
             SvcRollDice(inst, "A", c, df, m, values, e)
    /\ UNCHANGED <<engineVars, bcastVars, optVars, clientVars, envVars, obsVars>>

CallSvcGetPerformanceStats ==
    /\ \E inst \in Instances : SvcGetPerformanceStats(inst)
    /\ UNCHANGED <<engineVars, bcastVars, optVars, clientVars, envVars, obsVars>>

NextService ==
    \/ CallSvcRollDice
    \/ CallSvcGetPerformanceStats

SpecService == Init /\ [][NextService]_vars

----------------------------------------------------------------------------
(* Latency samples fed to PerformanceTracker *)
MaxTrackerSamples == 20
LatenciesT == {10, 60, 120}

\* the samples come in ascending order; the percentile is taken of the sorted
\* window, so the order of arrival does not matter to it
CallRecordRoll ==
    /\ Len(response_times) < MaxTrackerSamples
    /\ \E lat \in LatenciesT :
          /\ response_times # <<>> => lat >= response_times[Len(response_times)]
          /\ RecordRoll(lat)
    /\ ret' = [kind |-> "recorded", roll |-> None, args |-> None]
    /\ UNCHANGED <<pool_len, roll_history, session_stats, issued, bcastVars,
                   optVars, svcVars, clientVars, envVars, http, appended>>

CallGetP95ResponseTime ==
    /\ ret' = [kind |-> "p95", roll |-> None, args |-> None,
               value |-> GetP95ResponseTime]
    /\ UNCHANGED <<engineVars, bcastVars, optVars, svcVars, clientVars, envVars,
                   http, appended>>

NextTracker ==
    \/ CallRecordRoll
    \/ CallGetP95ResponseTime

SpecTracker == Init /\ [][NextTracker]_vars

----------------------------------------------------------------------------
(* Rolls of several latencies, their broadcasts, and GET /health *)
MaxHealthRolls == 2
LatenciesH == {10, 80, 100, 120}

PostRollH ==
    \E s \in Sessions, lat \in LatenciesH :
        /\ total_rolls < MaxHealthRolls
        /\ ApiRollDice(s, 1, 6, 0, None, <<LargeRaw>>, lat)

NextHealth ==
    \/ PostRollH
    \/ RunTask
    \/ ApiHealth

SpecHealth == Init /\ [][NextHealth]_vars

----------------------------------------------------------------------------
(* Probability queries to both engines. A query leaves nothing behind that *)
(* a later query reads (the cache holds what it would recompute), so each   *)
(* behaviour makes one.                                                     *)
MaxProbDice == 2
MaxProbDifficulty == 14
SidesB == {4, 6}
ModsB == {-1, 0, 1}

CallGetSuccessProbability ==
    /\ ret.kind = "none"
    /\ \E n \in 1..MaxProbDice, sides \in SidesB, m \in ModsB,
          df \in 0..MaxProbDifficulty :
          ret' = [kind |-> "probability", roll |-> None,
                  args |-> [dice_count |-> n, dice_sides |-> sides,
                            modifier |-> m, difficulty |-> df],
                  value |-> GetSuccessProbability(n, sides, m, df)]
    /\ UNCHANGED <<engineVars, bcastVars, optVars, svcVars, clientVars, envVars,
                   http, appended>>

CallGetRollProbability ==
    /\ ret.kind = "none"
    /\ \E n \in 1..MaxProbDice, m \in ModsB, df \in 0..MaxProbDifficulty :
          ret' = [kind |-> "probability", roll |-> None,
                  args |-> [dice_count |-> n, dice_sides |-> 6,
                            modifier |-> m, difficulty |-> df],
                  value |-> GetRollProbability(n, df, m)]
    /\ UNCHANGED <<engineVars, bcastVars, optVars, svcVars, clientVars, envVars,
                   http, appended>>

NextProb ==
    \/ CallGetSuccessProbability
    \/ CallGetRollProbability

SpecProb == Init /\ [][NextProb]_vars

----------------------------------------------------------------------------
(* One client following a session with get_session_updates while rolls are *)
(* broadcast and the clock advances in steps of one reading                *)
MaxClientRolls == 2
MaxClientTicks == 2
MaxClientPolls == 4
ClientSession == "A"

PostRollC ==
    \E s \in Sessions :
        /\ total_rolls < MaxClientRolls
        /\ ApiRollDice(s, 1, 6, 0, None, <<LargeRaw>>, 10)

ClientPollC ==
    /\ Get(session_subscribers, ClientSession, 0) < MaxClientPolls
    /\ ClientPoll(ClientSession)

ClockTickC == ClockTick({1}, MaxClientTicks)

NextClient ==
    \/ PostRollC
    \/ RunTask
    \/ ClientPollC
    \/ ClockTickC

SpecClient == Init /\ [][NextClient]_vars

----------------------------------------------------------------------------
(* One session rolling past the capacity of the broadcast queue, with a    *)
(* second session, a poll, an hour passing and the health check at the     *)
(* ends of the run                                                         *)
MaxQueueRolls == 1002
MaxQueueTicks == 1

QueueAtAnEnd == queue = <<>> \/ Len(queue) = QueueMaxSize

PostRollQ ==
    \E s \in Sessions :
        /\ total_rolls < MaxQueueRolls
        /\ tasks = <<>>
        /\ s # "A" => QueueAtAnEnd
        /\ ApiRollDice(s, 1, 6, 0, None, <<LargeRaw>>, 10)

GetRecentQ ==
    /\ Len(queue) = QueueMaxSize
    /\ tasks = <<>>
    /\ ApiGetRecent("A", 1, None)

ClockTickQ ==
    /\ Len(queue) = QueueMaxSize
    /\ tasks = <<>>
    /\ ClockTick({BroadcastMaxAge + 1}, MaxQueueTicks)

HealthCheckQ ==
    /\ QueueAtAnEnd
    /\ tasks = <<>>
    /\ BcastHealthCheck

NextQueue ==
    \/ PostRollQ
    \/ RunTask
    \/ GetRecentQ
    \/ ClockTickQ
    \/ HealthCheckQ

SpecQueue == Init /\ [][NextQueue]_vars

----------------------------------------------------------------------------
(* Properties of POST /roll and of the polls *)
\* a POST /roll request that fails validation
RollRequestInvalid(args) ==
    \/ ~RequestValid(args.dice_count, args.modifier, args.difficulty)
    \/ args.dice_sides \notin DiceSidesAllowed

(* C4: POST /dice/roll answers 400 to every request that fails validation  *)
(* (dice count, dice sides, modifier range), and with no other status.     *)
ValidationFailureIs400 ==
    (http.op = "roll" /\ RollRequestInvalid(http.args)) => http.status = 400

(* C5: once DiceEngine.roll_dice has returned a roll, POST /dice/roll      *)
(* answers 200 with that roll, whatever becomes of the store and broadcast *)
(* tasks; a request answered with an error has recorded no roll.           *)
RollAnswered200 ==
    http.op = "roll" =>
        /\ http.engine_roll # None => (http.status = 200 /\ http.body = http.engine_roll)
        /\ http.status # 200 => http.engine_roll = None

RollAnswered200Witness ==
    /\ http.op = "roll"
    /\ http.status = 200
    /\ http.engine_roll[1].id \in DOMAIN stored
    /\ ~stored[http.engine_roll[1].id]
    /\ \E i \in 1..Len(roll_history[http.args.session_id]) :
          roll_history[http.args.session_id][i] = http.engine_roll[1]

\* the rolls in the body of a poll answer
PollRolls == IF http.body = None THEN <<>> ELSE http.body[1].rolls

(* C6: two consecutive polls of a session with no roll appended in between *)
(* return the same ETag, and the second, given the first one's ETag, is    *)
(* answered not-modified (304).                                            *)
EtagStable ==
    (/\ http.op = "recent"
     /\ http.prev # None
     /\ ~http.appended_since
     /\ http.prev[1].kind = "recent"
     /\ http.prev[1].rolls = http.etag[1].rolls)
    => (/\ http.etag = http.prev
        /\ http.presented = http.prev => http.status = 304)

(* C7: when a roll was appended to the session between two polls, the later*)
(* poll returns another ETag than the earlier one and is not answered      *)
(* not-modified.                                                           *)
EtagChangesAfterAppend ==
    (/\ http.op = "recent"
     /\ http.prev # None
     /\ http.appended_since)
    => (http.etag # http.prev /\ http.status # 304)

(* C10: GET /dice/recent with limit N returns at most N rolls, the N most  *)
(* recently appended of the session (all when there are fewer), in order.  *)
RecentReturnsLastN ==
    (http.op = "recent" /\ http.status = 200 /\ http.param >= 0)
    => (/\ Len(PollRolls) <= http.param
        /\ Len(PollRolls) = Min(http.param, http.ledger_len))

(* C8: polling a session that has no ledger (never rolled, cleared or      *)
(* evicted) is never an error and is answered 200 with an empty roll list, *)
(* count 0 and a non-null ETag.                                            *)
EmptyPollIs200 ==
    (http.op = "recent" /\ http.ledger_len = 0)
    => (/\ http.status = 200
        /\ http.etag # None
        /\ http.body # None
        /\ http.body[1].rolls = <<>>
        /\ http.body[1].count = 0)

(* C8 as amended: such a poll is answered either 200 with an empty roll    *)
(* list, count 0 and a non-null ETag, or, when the request carries the     *)
(* ETag just computed, 304 with that ETag; never an error.                 *)
EmptyPollAnswered ==
    (http.op = "recent" /\ http.ledger_len = 0)
    => (/\ http.status \in {200, 304}
        /\ http.etag # None
        /\ http.status = 200 =>
              (/\ http.body # None
               /\ http.body[1].rolls = <<>>
               /\ http.body[1].count = 0)
        /\ http.status = 304 => http.presented = http.etag)

EmptyPollAnsweredWitness ==
    /\ http.op = "recent"
    /\ http.ledger_len = 0
    /\ http.status = 304
    /\ issued[http.session_id] > 0
    /\ http.session_id \in DOMAIN session_queues
    /\ session_queues[http.session_id] = <<>>
    /\ http.session_id \notin appended

\* broadcast tasks of the session that have been scheduled and not yet run
PendingBroadcasts(session_id) ==
    Cardinality({i \in DOMAIN tasks :
                    /\ tasks[i].kind = "broadcast"
                    /\ tasks[i].roll[1].session_id = session_id})

(* C9: after k appends to a session's ledger (the engine's _roll_history   *)
(* and the broadcaster's _session_queues, capacity 100), the ledger holds  *)
(* exactly the min(k, 100) most recently appended rolls in insertion order;*)
(* overflow drops the oldest and is never an error.                        *)
LedgerHoldsMostRecent ==
    /\ ret.kind \in {"none", "ok"}
    /\ \A s \in Sessions :
          LET k  == issued[s]
              h  == Get(roll_history, s, <<>>)
              m  == Min(k, HistoryMaxLen)
              kb == k - PendingBroadcasts(s)
              q  == Get(session_queues, s, <<>>)
              mb == Min(kb, SessionQueueMaxLen)
          IN /\ Len(h) = m
             /\ \A i \in 1..m : h[i].id = <<s, k - m + i>>
             /\ Len(q) = mb
             /\ \A i \in 1..mb : q[i].roll_id = <<s, kb - mb + i>>

LedgerHoldsMostRecentWitness ==
    \E s \in Sessions :
        /\ issued[s] > HistoryMaxLen
        /\ PendingBroadcasts(s) = 0
        /\ Len(roll_history[s]) = HistoryMaxLen
        /\ roll_history[s][1].id = <<s, issued[s] - HistoryMaxLen + 1>>
        /\ Len(session_queues[s]) = SessionQueueMaxLen
        /\ session_queues[s][SessionQueueMaxLen].roll_id = <<s, issued[s]>>

(* C2: every roll produced by DiceEngine.roll_dice, roll_dice_optimized or *)
(* bulk_roll_dice has success = (total >= difficulty) when a difficulty    *)
(* was given, and an absent success (never false) when none was given.     *)
SuccessMatchesDifficulty ==
    /\ ret.kind = "ok" =>
          LET r == ret.roll[1]
          IN /\ r.difficulty # None =>
                   r.success = Some(r.result >= r.difficulty[1])
             /\ r.difficulty = None => r.success = None
    /\ \A k \in DOMAIN opt_ret.rolls :
          LET r == opt_ret.rolls[k]
          IN /\ r.difficulty # None =>
                   r.is_success = Some(r.total >= r.difficulty[1])
             /\ r.difficulty = None => r.is_success = None

----------------------------------------------------------------------------
(* Properties of the delivery cache and of the janitor *)

\* the step in which the event loop runs a broadcast_roll task
BroadcastStep ==
    /\ tasks # <<>>
    /\ Head(tasks).kind = "broadcast"
    /\ tasks' = Tail(tasks)

\* whether the data an ETag was computed over hold the roll
EtagCovers(data, roll_id) ==
    IF data.kind = "recent"
      THEN \E i \in DOMAIN data.rolls : data.rolls[i].id = roll_id
      ELSE \E i \in DOMAIN data.updates : data.updates[i].roll_id = roll_id

(* C11: when DiceBroadcaster.broadcast_roll has completed for a roll, the  *)
(* ETag stored for the roll's session has been recomputed over a ledger    *)
(* that includes the roll, and the session's stored last-change timestamp  *)
(* is no earlier than the time of the append.                              *)
NotifyRefreshesEtag ==
    [][ BroadcastStep =>
          LET roll == Head(tasks).roll[1]
              s == roll.session_id
          IN /\ s \in DOMAIN etags'
             /\ EtagCovers(etags'[s], roll.id)
             /\ s \in DOMAIN last_modified'
             /\ last_modified'[s] >= now ]_vars

\* the step in which GET /recent is answered
RecentPollStep == http' # http /\ http'.op = "recent"

(* C12: under any interleaving of appends and polls of a session, the ETag *)
(* of a poll response is computed over exactly the rolls the response      *)
(* returns, and these are the tail of the session ledger as it stands when *)
(* the poll is answered: never an older state, never a half-applied append.*)
EtagMatchesLedger ==
    [][ RecentPollStep =>
          LET s == http'.session_id
              ledger == Get(session_queues', s, <<>>)
              n == Len(ledger)
              k == Min(http'.param, n)
              served == http'.etag[1].rolls
          IN /\ etags'[s] = http'.etag[1]
             /\ http'.status = 200 => http'.body = http'.etag
             /\ \E m \in 0..n :
                   served = [i \in 1..m |-> ledger[n - m + i].roll_data]
             /\ http'.param >= 1 =>
                   served = [i \in 1..k |-> ledger[n - k + i].roll_data]
             /\ \A i \in 1..n : \E j \in DOMAIN queue' : queue'[j] = ledger[i]
             /\ session_queues' = session_queues ]_vars

EtagMatchesLedgerWitness ==
    /\ http.op = "recent"
    /\ http.status = 200
    /\ http.param = 1
    /\ Len(http.body[1].rolls) = 1
    /\ http.session_id \notin appended
    /\ \E i \in DOMAIN tasks :
          /\ tasks[i].kind = "broadcast"
          /\ tasks[i].roll[1].session_id = http.session_id

(* C13: two rolls of a session stand in the polled ledger (the RollQueue   *)
(* session queue) in the order in which their resolution completed, which  *)
(* is the order of DiceEngine's roll history of the session, under every   *)
(* interleaving of the broadcast tasks and for as long as both are kept.   *)
LedgerOrderIsResolutionOrder ==
    \A s \in Sessions :
        LET q == Get(session_queues, s, <<>>)
            h == Get(roll_history, s, <<>>)
        IN \A i \in DOMAIN q, j \in DOMAIN q :
              i < j => \E a \in DOMAIN h, b \in DOMAIN h :
                          /\ a < b
                          /\ h[a].id = q[i].roll_id
                          /\ h[b].id = q[j].roll_id

LedgerOrderIsResolutionOrderWitness ==
    \E s \in Sessions :
        /\ s \in DOMAIN session_queues
        /\ Len(session_queues[s]) >= 2
        /\ session_queues[s][1].roll_id # session_queues[s][2].roll_id
        /\ tasks = <<>>

\* the step in which a broadcast_roll task runs _cleanup_old_data
SweepStep == BroadcastStep /\ CleanupDue

\* the time of the last roll appended to the session's queue, 0 when none is held
LastRollActivity(sq, session_id) ==
    LET q == Get(sq, session_id, <<>>)
    IN IF q = <<>> THEN 0 ELSE q[Len(q)].broadcast_time

(* C14: after a run of _cleanup_old_data, a tracked session whose last roll*)
(* activity is older than the 30 minute threshold has neither a ledger     *)
(* (session roll queue) nor a delivery-cache entry (stored ETag and        *)
(* last-modified timestamp).                                               *)
SweepRemovesStaleSessions ==
    [][ SweepStep =>
          LET added == AddRollSession(session_queues, Head(tasks).roll[1])
          IN \A s \in active_sessions :
                (/\ s \in DOMAIN added
                 /\ LastRollActivity(added, s) < now - InactiveAfter)
                => (/\ s \notin DOMAIN session_queues'
                    /\ s \notin DOMAIN etags'
                    /\ s \notin DOMAIN last_modified') ]_vars

(* C15: the janitor never clears the ledger of a session that had a roll   *)
(* appended within the 30 minute threshold: a broadcast younger than the   *)
(* threshold is still in the polled ledger after the sweep.                *)
SweepKeepsRecentRolls ==
    [][ SweepStep =>
          LET added == AddRollSession(session_queues, Head(tasks).roll[1])
          IN \A s \in DOMAIN added : \A i \in DOMAIN added[s] :
                added[s][i].broadcast_time >= now - InactiveAfter
                => /\ s \in DOMAIN session_queues'
                   /\ \E j \in DOMAIN session_queues'[s] :
                         session_queues'[s][j] = added[s][i] ]_vars

(* C16: get_secure_random returns a value within [min_val, max_val] and    *)
(* never fails for lack of pooled numbers: below the low-water mark a      *)
(* refill is scheduled without blocking the caller, and an empty pool is   *)
(* made up for by a direct secure draw, under every interleaving of draws  *)
(* and refill tasks.                                                       *)
DrawNeverFails ==
    /\ ret.kind # "IndexError"
    /\ ret.kind = "ok" =>
          \A i \in DOMAIN ret.roll[1].individual_rolls :
              /\ ret.roll[1].individual_rolls[i] >= 1
              /\ ret.roll[1].individual_rolls[i] <= ret.args.dice_sides

\* whether a poll of the session with a limit of the whole ledger shows the roll
InPollView(session_id, roll_id) ==
    \E i \in DOMAIN QueueRecentRolls(session_id, SessionQueueMaxLen) :
        QueueRecentRolls(session_id, SessionQueueMaxLen)[i].roll_id = roll_id

(* C17: with the background tasks scheduled fairly, every roll returned by *)
(* POST /dice/roll eventually appears in the poll view of its session      *)
(* (here no roll is evicted by overflow or removed by session clearing).   *)
RollEventuallyPolled ==
    \A s \in Sessions : \A n \in 1..MaxLiveRolls :
        (issued[s] >= n) ~> InPollView(s, <<s, n>>)

RollEventuallyPolledWitness ==
    /\ http.op = "recent"
    /\ http.status = 200
    /\ Len(http.body[1].rolls) = MaxLiveRolls
    /\ InPollView(http.session_id, <<http.session_id, MaxLiveRolls>>)

\* the session is tracked and its last change is older than the threshold
SessionStale(session_id) ==
    /\ session_id \in active_sessions
    /\ session_id \in DOMAIN last_modified
    /\ last_modified[session_id] < now - InactiveAfter

(* C18: the janitor runs on its own interval: a session whose last activity *)
(* is older than the inactivity threshold is eventually swept (or becomes   *)
(* active again), even if no further roll is ever broadcast in any session. *)
StaleSessionEventuallySwept ==
    \A s \in Sessions :
        SessionStale(s) ~> (s \notin active_sessions \/ ~SessionStale(s))

(* C19: a poll leaves the stored ETag and the stored last-change timestamp *)
(* of every session unchanged.                                             *)
PollLeavesCacheEntryUnchanged ==
    [][RecentPollStep => UNCHANGED <<etags, last_modified>>]_vars

\* no broadcast of the queue is older than the cutoff
NoneOlderThan(q, cutoff) ==
    \A i \in DOMAIN q : q[i].broadcast_time >= cutoff

(* C20: after a run of cleanup_old_broadcasts(3600) neither the global      *)
(* queue nor any session queue holds a broadcast older than now - 3600, and *)
(* no session queue that the cleanup emptied is still present (an empty     *)
(* queue that is present is one clear_session emptied afterwards).          *)
CleanupDropsOldBroadcasts ==
    [][SweepStep =>
        /\ NoneOlderThan(queue', now - BroadcastMaxAge)
        /\ \A s \in DOMAIN session_queues' :
              /\ NoneOlderThan(session_queues'[s], now - BroadcastMaxAge)
              /\ session_queues'[s] = <<>> =>
                    /\ s \in active_sessions \cup {Head(tasks).roll[1].session_id}
                    /\ s \notin active_sessions'
                    /\ SessionStale(s) \/ s = Head(tasks).roll[1].session_id]_vars

CleanupDropsOldBroadcastsWitness ==
    /\ now = StartTime + BroadcastMaxAge + 1
    /\ last_cleanup = now
    /\ total_rolls = MaxSweepRolls
    /\ tasks = <<>>
    /\ Len(queue) = 1
    /\ queue[1].broadcast_time = now
    /\ Cardinality(DOMAIN session_queues) = 1

----------------------------------------------------------------------------
(* Properties of the per-session state *)

\* what the engine and the broadcaster hold for one session
SessionData(session_id) ==
    [history |-> Get(roll_history, session_id, <<>>),
     stats |-> IF session_id \in DOMAIN session_stats
                 THEN Some(session_stats[session_id]) ELSE None,
     polled |-> QueueRecentRolls(session_id, SessionQueueMaxLen)]

\* DiceEngine.roll_dice returned a roll in this step
RollStep == total_rolls' = total_rolls + 1

(* C21: a roll resolved and broadcast for one session leaves the roll      *)
(* history, the statistics and the polled roll queue of every other        *)
(* session unchanged.                                                      *)
SessionsIsolated ==
    [][/\ RollStep =>
            \A s \in Sessions \ {ret'.roll[1].session_id} :
                SessionData(s)' = SessionData(s)
       /\ BroadcastStep =>
            \A s \in Sessions \ {Head(tasks).roll[1].session_id} :
                SessionData(s)' = SessionData(s)]_vars

(* C22: a ledger exists for a session only if the session has had a roll   *)
(* since it was last cleared; reads of a session with no rolls create no   *)
(* ledger for it.                                                          *)
LedgerOnlyAfterRoll ==
    \A s \in DOMAIN roll_history : roll_history[s] # <<>>

(* C29: after any sequence of roll_dice, get_recent_rolls and              *)
(* clear_session_data calls, the roll history of every session is as long  *)
(* as min(total_rolls of its statistics, 100), 0 without statistics, and   *)
(* success_count never exceeds total_rolls.                                *)
HistoryMatchesStatistics ==
    \A s \in Sessions :
        /\ Len(Get(roll_history, s, <<>>)) =
              IF s \in DOMAIN session_stats
                THEN Min(session_stats[s].total_rolls, HistoryMaxLen) ELSE 0
        /\ s \in DOMAIN session_stats =>
              session_stats[s].success_count <= session_stats[s].total_rolls

HistoryMatchesStatisticsWitness ==
    /\ "A" \in DOMAIN session_stats
    /\ session_stats["A"].total_rolls > HistoryMaxLen
    /\ session_stats["A"].success_count < session_stats["A"].total_rolls
    /\ Len(roll_history["A"]) = HistoryMaxLen
    /\ "B" \in DOMAIN roll_history
    /\ "B" \notin DOMAIN session_stats
    /\ issued["B"] > 0

----------------------------------------------------------------------------
(* Properties of the performance accounting and of DiceRollingEngine *)

\* the record calls made so far, over every instance
SvcRecordCalls ==
    SumSeq([i \in 1..2 |->
              Get(svc_roll_count,
                  IF i = 1 THEN "session_service" ELSE "cached_session_service",
                  0)])

(* C23: after k record calls the rolling window holds min(k, 1000) samples, *)
(* and the roll count that is reported is never smaller than the number of  *)
(* samples in the window.                                                   *)
ReportedCountCoversWindow ==
    /\ Len(svc_roll_times) = Min(SvcRecordCalls, SvcMaxHistory)
    /\ svc_ret.kind = "stats" => svc_ret.total_rolls >= Len(svc_roll_times)

(* C27: a request that passes _validate_roll_request gets a RollDiceResponse *)
(* from DiceRollingEngine.roll_dice, which never raises for it, whatever die *)
(* values are drawn.                                                         *)
ValidatedRollReturns ==
    [][\A inst \in Instances, c \in CountsV, df \in DifficultiesV, m \in ModsV,
          e \in LatenciesV :
          \A values \in [1..c -> DieValuesV] :
             (/\ ValidateRollRequest(c, df, m)
              /\ SvcRollDice(inst, "A", c, df, m, values, e))
                => svc_ret'.kind = "ok"]_vars

\* the nearest-rank percentile: the smallest sample with at least pct percent
\* of the samples at or below it
NearestRank(samples, pct) ==
    Sorted(samples)[(Len(samples) * pct + 99) \div 100]

(* C24: for every non-empty window, the reported p95 equals the nearest-rank *)
(* 95th percentile of the samples in the window.                            *)
P95IsNearestRank ==
    (ret.kind = "p95" /\ response_times # <<>>)
        => ret.value = NearestRank(response_times, 95)

(* C25: GET /health reports healthy, warning or degraded, and it reports    *)
(* degraded whenever the engine's latency health is degraded (p95 not under *)
(* 100 ms) or the broadcast queue holds more than 5000.                     *)
HealthDegradedWhenEngineDegraded ==
    http.op = "health" =>
        /\ http.status \in {"healthy", "warning", "degraded"}
        /\ (http.engine_status = "degraded" \/ http.queue_size > 5000)
              => http.status = "degraded"

(* C26: the success probability is exactly 1 when the difficulty is at most *)
(* n + m and exactly 0 when it is above n * s + m, in both engines.         *)
ProbabilityExactAtBounds ==
    ret.kind = "probability" =>
        /\ ret.args.difficulty <= ret.args.dice_count + ret.args.modifier
              => ret.value = DoubleOne
        /\ ret.args.difficulty >
              ret.args.dice_count * ret.args.dice_sides + ret.args.modifier
              => ret.value = DoubleZero

----------------------------------------------------------------------------
(* Properties of a client following a session *)

\* how many times the client was handed the roll
TimesReceived(roll_id) ==
    Cardinality({i \in 1..Len(client_received) : client_received[i] = roll_id})

(* C28: once the client has polled and nothing was broadcast to the session *)
(* since, it has been handed every roll broadcast to the session exactly    *)
(* once: none missed, none delivered twice.                                 *)
ClientReceivesEachRollOnce ==
    (client_since # None /\ ClientSession \notin appended) =>
        \A i \in 1..Len(Get(session_queues, ClientSession, <<>>)) :
            TimesReceived(session_queues[ClientSession][i].roll_id) = 1

----------------------------------------------------------------------------
(* Properties of the broadcast queue *)

(* C30: the global broadcast queue never holds more than 1000 broadcasts   *)
(* and no session queue more than 100, so the queue size the health check  *)
(* reports never exceeds 5000 and its status is never overloaded.          *)
QueueWithinCapacity ==
    /\ Len(queue) <= QueueMaxSize
    /\ \A s \in DOMAIN session_queues :
           Len(session_queues[s]) <= SessionQueueMaxLen
    /\ HealthCheckStatus # "overloaded"
    /\ http.op = "health_check" =>
           (http.queue_size <= 5000 /\ http.status # "overloaded")

\* the queue is full after more broadcasts than it can hold, the session
\* queue is full too, and the health check has just looked at them
QueueWithinCapacityWitness ==
    /\ Len(queue) = QueueMaxSize
    /\ issued["A"] > QueueMaxSize
    /\ tasks = <<>>
    /\ Len(session_queues["A"]) = SessionQueueMaxLen
    /\ http.op = "health_check"
    /\ http.queue_size = QueueMaxSize

====
